---- MODULE Spec2Model ----
(***************************************************************************)
(* Horoscope bot (src/gadalka/main.py): the SQLite store of DatabaseManager *)
(* (tables users and horoscopes), the callback handlers of HoroscopeBot    *)
(* (show_zodiac_menu, generate_horoscope) and daily_horoscope_job.         *)
(*                                                                         *)
(* Scheduling.  Everything runs on one asyncio event loop.  The            *)
(* Application is built with its defaults (line 217), so callback updates  *)
(* are handled one at a time; the daily job is a task of its own and       *)
(* interleaves with the running handler at every await.                    *)
(* _get_horoscope_prediction holds no await: giga_client.chat (line 197)   *)
(* is a blocking call, so while it is pending no other task takes a step.  *)
(* The store calls are synchronous too and run in the same step as the     *)
(* code around them.                                                       *)
(*                                                                         *)
(* Sign names are transliterated to ASCII; a prediction text is identified *)
(* by the number of the chat call that returned it.                        *)
(***************************************************************************)
EXTENDS Integers, Sequences, FiniteSets, TLC

\* ---------------------------------------------------------------- bounds
\* chat users
NumUsers == 2
\* giga_client.chat calls in a behaviour
MaxGen == 2

\* ------------------------------------------------------------- constants
ZODIAC_SIGNS ==
  << "Oven", "Telets", "Bliznetsy", "Rak", "Lev", "Deva",
     "Vesy", "Skorpion", "Strelets", "Kozerog", "Vodoley", "Ryby" >>

AllSigns == { ZODIAC_SIGNS[i] : i \in 1..Len(ZODIAC_SIGNS) }

\* the signs the model's users pick among: the code treats all twelve alike
SignsInPlay == { "Oven", "Deva" }

UserIds == 1..NumUsers

NULL == "NULL"

\* a value of the notification_time column other than NULL
SomeTime == "09:00"

\* timestamps, as far as the tables tell them apart: a row the file held at
\* start-up was stamped before the process started, and every
\* CURRENT_TIMESTAMP the process evaluates is later than that
BeforeStart == "before_start"
CURRENT_TIMESTAMP == "since_start"

\* callback_data values an update can carry: the buttons' values, a value
\* no button has, and a sign followed by a newline
Tokens == SignsInPlay \cup {"get_horoscope", "unknown", "Oven\n"}

GenerationError == "GenerationError"
StorageError == "StorageError"
DeliveryError == "DeliveryError"

VARIABLES
  db,         \* the SQLite file: users, horoscopes, the AUTOINCREMENT counter
  flow,       \* the callback handler being run by the dispatcher
  job,        \* daily_horoscope_job: the run in progress, else the last one
  sent,       \* the predictions reply_text and send_message delivered
  genCount,   \* chat calls made so far
  lastUpsert  \* history: per user, the sign of the last completed upsert

vars == << db, flow, job, sent, genCount, lastUpsert >>

\* ------------------------------------------------------- DatabaseManager
UserRow(user_id, zodiac_sign, notification_time, created_at, updated_at) ==
  [ user_id |-> user_id, zodiac_sign |-> zodiac_sign,
    notification_time |-> notification_time,
    created_at |-> created_at, updated_at |-> updated_at ]

HoroscopeRow(id, user_id, zodiac_sign, prediction, created_at) ==
  [ id |-> id, user_id |-> user_id, zodiac_sign |-> zodiac_sign,
    prediction |-> prediction, created_at |-> created_at ]

\* a write without its key: the sign is set in every row of the table
update_user_zodiac_EveryRow(d, user_id, zodiac_sign) ==
  [ d EXCEPT !.users =
      { [ r EXCEPT !.zodiac_sign = zodiac_sign ] : r \in { q \in @ : q.user_id # user_id } }
      \cup { UserRow(user_id, zodiac_sign, NULL, CURRENT_TIMESTAMP, CURRENT_TIMESTAMP) } ]

\* INSERT without conflict handling on the primary key: the old row stays
update_user_zodiac_NoReplace(d, user_id, zodiac_sign) ==
  [ d EXCEPT !.users = @ \cup { UserRow(user_id, zodiac_sign, NULL, CURRENT_TIMESTAMP, CURRENT_TIMESTAMP) } ]

\* INSERT OR IGNORE: a user that has a row keeps it
update_user_zodiac_Ignore(d, user_id, zodiac_sign) ==
  IF \E r \in d.users : r.user_id = user_id
    THEN d
    ELSE [ d EXCEPT !.users = @ \cup { UserRow(user_id, zodiac_sign, NULL, CURRENT_TIMESTAMP, CURRENT_TIMESTAMP) } ]

\* INSERT OR REPLACE INTO users (user_id, zodiac_sign, updated_at): the row
\* with this primary key is deleted and a new one inserted, its unnamed
\* columns taking their defaults (notification_time NULL, created_at the
\* current timestamp)
update_user_zodiac(d, user_id, zodiac_sign) ==
  [ d EXCEPT !.users = { r \in @ : r.user_id # user_id }
                         \cup { UserRow(user_id, zodiac_sign, NULL, CURRENT_TIMESTAMP, CURRENT_TIMESTAMP) } ]

\* INSERT that skips a prediction for a user and sign already in the history
save_horoscope_Dedup(d, user_id, zodiac_sign, prediction) ==
  IF \E r \in d.horoscopes : r.user_id = user_id /\ r.zodiac_sign = zodiac_sign
    THEN d
    ELSE [ d EXCEPT !.horoscopes = @ \cup { HoroscopeRow(d.seq + 1, user_id,
                                              zodiac_sign, prediction, CURRENT_TIMESTAMP) },
                    !.seq = @ + 1 ]

\* INSERT that replaces the user's previous history row
save_horoscope_Replace(d, user_id, zodiac_sign, prediction) ==
  [ d EXCEPT !.horoscopes = { r \in @ : r.user_id # user_id }
                              \cup { HoroscopeRow(d.seq + 1, user_id,
                                       zodiac_sign, prediction, CURRENT_TIMESTAMP) },
             !.seq = @ + 1 ]

\* INSERT with the FOREIGN KEY of horoscopes enforced: a row for a user_id
\* without a users row is refused
save_horoscope_ForeignKey(d, user_id, zodiac_sign, prediction) ==
  IF \E r \in d.users : r.user_id = user_id
    THEN [ d EXCEPT !.horoscopes =
                      @ \cup { HoroscopeRow(d.seq + 1, user_id, zodiac_sign,
                                            prediction, CURRENT_TIMESTAMP) },
                    !.seq = @ + 1 ]
    ELSE d

\* INSERT that also writes the user's row (clears its notification_time)
save_horoscope_Touch(d, user_id, zodiac_sign, prediction) ==
  [ d EXCEPT !.horoscopes = @ \cup { HoroscopeRow(d.seq + 1, user_id,
                                       zodiac_sign, prediction, CURRENT_TIMESTAMP) },
             !.seq = @ + 1,
             !.users = { IF r.user_id = user_id
                           THEN [ r EXCEPT !.notification_time = NULL ]
                           ELSE r : r \in @ } ]

\* INSERT INTO horoscopes (user_id, zodiac_sign, prediction): id is the
\* AUTOINCREMENT counter's next value, created_at its default.  No PRAGMA
\* foreign_keys is issued, so the FOREIGN KEY clause is not enforced.
save_horoscope(d, user_id, zodiac_sign, prediction) ==
  [ d EXCEPT !.horoscopes = @ \cup { HoroscopeRow(d.seq + 1, user_id,
                                       zodiac_sign, prediction, CURRENT_TIMESTAMP) },
             !.seq = @ + 1 ]

\* the rows of a set, as <<user_id, zodiac_sign>> pairs in rowid order
RECURSIVE RowsInOrder(_)
RowsInOrder(rows) ==
  IF rows = {} THEN << >>
  ELSE LET first == CHOOSE r \in rows : \A q \in rows : r.user_id <= q.user_id
       IN  << << first.user_id, first.zodiac_sign >> >>
             \o RowsInOrder(rows \ {first})

\* SELECT user_id, zodiac_sign FROM users WHERE notification_time IS NOT NULL
get_users_for_notification(d) ==
  RowsInOrder({ r \in d.users : r.notification_time # NULL })

\* ------------------------------------------------------------ messages
\* query.message.reply_text(...) with the prediction
HoroscopeMsg(user_id, zodiac_sign, prediction) ==
  [ chat_id |-> user_id, kind |-> "horoscope", zodiac_sign |-> zodiac_sign,
    prediction |-> prediction ]

\* context.bot.send_message(...) of the daily job
DailyMsg(user_id, zodiac_sign, prediction) ==
  [ chat_id |-> user_id, kind |-> "daily", zodiac_sign |-> zodiac_sign,
    prediction |-> prediction ]

\* ------------------------------------------------------------- initial
\* the database file outlives the process (CREATE TABLE IF NOT EXISTS):
\* at start-up users holds at most one row per user_id, written earlier.
\* A row that holds a notification_time was put there by other means than
\* update_user_zodiac, with or without a zodiac_sign (both columns are
\* nullable); rows without one come about in the behaviours themselves
InitialRows(u) ==
  { UserRow(u, "Oven", SomeTime, BeforeStart, BeforeStart),
    UserRow(u, NULL, SomeTime, BeforeStart, BeforeStart) }

InitialUsers ==
  { rows \in SUBSET (UNION { InitialRows(u) : u \in UserIds }) :
      \A r, q \in rows : r.user_id = q.user_id => r = q }

\* no handler is running; handler and outcome tell which handler the last
\* update ran and how it ended
IdleFlow ==
  [ pc |-> "idle", handler |-> "none", user_id |-> 0, data |-> NULL,
    prediction |-> 0, error |-> "none", outcome |-> "none" ]

Ended(f, outcome) == [ IdleFlow EXCEPT !.outcome = outcome, !.handler = f.handler ]

\* what is kept of the run before, when every iteration of it went through:
\* the users it fetched and the texts it generated for them
NoPrior == [ users |-> << >>, texts |-> << >>, ok |-> FALSE ]

\* users: what the run fetched; i: the position of the loop; results, texts:
\* per user reached, how its iteration ended and the text generated for it
\* (0: none); escaped: whether an exception left the run ("none": it has
\* not); prior: the run before this one
IdleJob ==
  [ pc |-> "idle", users |-> << >>, i |-> 0, prediction |-> 0,
    results |-> << >>, texts |-> << >>, escaped |-> "none", prior |-> NoPrior ]

\* every user fetched went through generation, delivery and the history write
AllOk(j) ==
  /\ j.escaped = "none"
  /\ Len(j.results) = Len(j.users)
  /\ \A i \in 1..Len(j.results) : j.results[i] = "ok"

\* a new run, entered from the record j of the run before (a run that
\* fetched no user leaves nothing to keep)
NewRun(j) ==
  [ IdleJob EXCEPT !.prior = IF AllOk(j) /\ j.users # << >>
                               THEN [ users |-> j.users, texts |-> j.texts, ok |-> TRUE ]
                               ELSE NoPrior ]

\* the job has returned (escaped = "none") or was left by an exception
Finished(j, escaped) ==
  [ j EXCEPT !.pc = "idle", !.i = 0, !.prediction = 0, !.escaped = escaped ]

Init ==
  /\ db \in { [ users |-> rows, horoscopes |-> {}, seq |-> 0 ] : rows \in InitialUsers }
  /\ flow = IdleFlow
  /\ job = IdleJob
  /\ sent = {}
  /\ genCount = 0
  /\ lastUpsert = [ u \in UserIds |-> NULL ]

\* ------------------------------------------------------------ scheduling
\* giga_client.chat is a blocking call inside a coroutine: while a task is
\* in it the event loop runs nothing else
LoopHeldByFlow == flow.pc = "generating"
LoopHeldByJob == job.pc = "generating"

\* chat calls the running handler and the running job will still make
GenPending ==
  (IF flow.pc \in {"answer", "edit", "generating"} THEN 1 ELSE 0)
  + (CASE job.pc = "generating" -> Len(job.users) - job.i + 1
       [] job.pc = "sending" -> Len(job.users) - job.i
       [] OTHER -> 0)

\* ------------------------------------------------------------ dispatcher
\* re.match of a pattern '^(a1|a2|...)$' on data: without re.MULTILINE the $
\* matches at the end of the string and also just before a newline that
\* ends it
FullMatch(alternatives, data) ==
  \E a \in alternatives : data = a \/ data = a \o "\n"

\* the CallbackQueryHandler patterns registered in run()
Route(data) ==
  IF FullMatch({"get_horoscope"}, data) THEN "show_zodiac_menu"
  ELSE IF FullMatch(AllSigns, data) THEN "generate_horoscope"
  ELSE "none"

\* a callback query of user_id carrying data arrives and is routed; an
\* update no pattern matches runs no handler and leaves no trace
Dispatch(user_id, data) ==
  /\ flow.pc = "idle"
  /\ ~LoopHeldByJob
  /\ Route(data) = "generate_horoscope" => genCount + GenPending + 1 <= MaxGen
  /\ flow' = IF Route(data) = "none"
               THEN flow
               ELSE [ IdleFlow EXCEPT !.pc = "answer", !.handler = Route(data),
                                      !.user_id = user_id, !.data = data ]
  /\ UNCHANGED << db, job, sent, genCount, lastUpsert >>

\* the handler is left by an exception nothing in it catches
Escaped(f) == Ended(f, "escaped")

\* ---------------------------------------------------- show_zodiac_menu
\* await query.answer()
MenuAnswer(ok) ==
  /\ flow.pc = "answer" /\ flow.handler = "show_zodiac_menu"
  /\ ~LoopHeldByJob
  /\ flow' = IF ok THEN [ flow EXCEPT !.pc = "edit" ] ELSE Escaped(flow)
  /\ UNCHANGED << db, job, sent, genCount, lastUpsert >>

\* await query.edit_message_text(...) with the keyboard of the 12 signs
MenuEdit(ok) ==
  /\ flow.pc = "edit" /\ flow.handler = "show_zodiac_menu"
  /\ ~LoopHeldByJob
  /\ flow' = IF ok THEN Ended(flow, "menu") ELSE Escaped(flow)
  /\ UNCHANGED << db, job, sent, genCount, lastUpsert >>

\* -------------------------------------------------- generate_horoscope
\* await query.answer(), outside the try
FlowAnswer(ok) ==
  /\ flow.pc = "answer" /\ flow.handler = "generate_horoscope"
  /\ ~LoopHeldByJob
  /\ flow' = IF ok THEN [ flow EXCEPT !.pc = "edit" ] ELSE Escaped(flow)
  /\ UNCHANGED << db, job, sent, genCount, lastUpsert >>

\* await query.edit_message_text(...), outside the try; then the try is
\* entered and giga_client.chat is called
FlowEdit(ok) ==
  /\ flow.pc = "edit" /\ flow.handler = "generate_horoscope"
  /\ ~LoopHeldByJob
  /\ flow' = IF ok THEN [ flow EXCEPT !.pc = "generating" ] ELSE Escaped(flow)
  /\ UNCHANGED << db, job, sent, genCount, lastUpsert >>

\* the except branch: logger.error records the exception, then the apology
\* is awaited
FlowFailed(f, err) == [ f EXCEPT !.pc = "apology", !.error = err ]

\* the handler without its save_horoscope call
FlowStore_UpsertOnly(d, f, text, upOk, saveOk) ==
  IF upOk THEN update_user_zodiac(d, f.user_id, f.data) ELSE d

\* the handler with its two store calls in the other order
FlowStore_SaveFirst(d, f, text, upOk, saveOk) ==
  IF ~saveOk THEN d
  ELSE IF ~upOk THEN save_horoscope(d, f.user_id, f.data, text)
  ELSE update_user_zodiac(save_horoscope(d, f.user_id, f.data, text),
                          f.user_id, f.data)

\* the store after lines 178-179, given which of the two calls raise
FlowStore(d, f, text, upOk, saveOk) ==
  IF ~upOk THEN d
  ELSE IF ~saveOk THEN update_user_zodiac(d, f.user_id, f.data)
  ELSE save_horoscope(update_user_zodiac(d, f.user_id, f.data),
                      f.user_id, f.data, text)

\* giga_client.chat returns or raises; on a prediction update_user_zodiac and
\* save_horoscope run (each may raise) and reply_text is awaited
FlowGenerate(genOk, upOk, saveOk) ==
  /\ flow.pc = "generating"
  /\ genCount' = genCount + 1
  /\ IF genOk
       THEN /\ db' = FlowStore(db, flow, genCount + 1, upOk, saveOk)
            /\ lastUpsert' = IF upOk THEN [ lastUpsert EXCEPT ![flow.user_id] = flow.data ]
                             ELSE lastUpsert
            /\ IF upOk /\ saveOk
                 THEN flow' = [ flow EXCEPT !.pc = "reply", !.prediction = genCount + 1 ]
                 ELSE flow' = FlowFailed(flow, StorageError)
       ELSE /\ flow' = FlowFailed(flow, GenerationError)
            /\ UNCHANGED << db, lastUpsert >>
  /\ UNCHANGED << job, sent >>

\* await query.message.reply_text(prediction), inside the try
FlowReply(ok) ==
  /\ flow.pc = "reply"
  /\ ~LoopHeldByJob
  /\ IF ok
       THEN /\ sent' = sent \cup { HoroscopeMsg(flow.user_id, flow.data, flow.prediction) }
            /\ flow' = Ended(flow, "delivered")
       ELSE /\ sent' = sent
            /\ flow' = FlowFailed(flow, DeliveryError)
  /\ UNCHANGED << db, job, genCount, lastUpsert >>

\* await query.message.reply_text(apology), inside the except branch
FlowApology(ok) ==
  /\ flow.pc = "apology"
  /\ ~LoopHeldByJob
  /\ flow' = IF ok THEN Ended(flow, "apologised") ELSE Escaped(flow)
  /\ UNCHANGED << db, job, sent, genCount, lastUpsert >>

\* ------------------------------------------------- daily_horoscope_job

JobRecorded(j, result, text) ==
  [ j EXCEPT !.results = Append(@, result), !.texts = Append(@, text) ]

\* a loop that steps over every other pair
EndIteration_Skip(j) ==
  IF j.i + 1 < Len(j.users)
    THEN job' = [ j EXCEPT !.pc = "generating", !.i = @ + 2, !.prediction = 0 ]
    ELSE job' = Finished(j, "none")

\* the for statement takes the next pair, whose chat call starts at once, or
\* the loop and the job end
EndIteration(j) ==
  IF j.i < Len(j.users)
    THEN job' = [ j EXCEPT !.pc = "generating", !.i = @ + 1, !.prediction = 0 ]
    ELSE job' = Finished(j, "none")

\* an except clause that re-raises: the run ends at the failing user
JobExcept_Abort(j) == job' = Finished(j, "subscriber")

\* except Exception inside the loop body: logger.error records the user and
\* the exception (the iteration's result in j) and the loop goes on
JobExcept(j) == EndIteration(j)

\* users = self.db.get_users_for_notification(), outside any try: when it
\* raises the job is left at once and nothing of the bot has changed; with
\* users to serve the first chat call starts
JobStart(ok) ==
  /\ job.pc = "idle"
  /\ ~LoopHeldByFlow
  /\ genCount + GenPending + Len(get_users_for_notification(db)) <= MaxGen
  /\ IF ~ok
       THEN job' = job
       ELSE LET users == get_users_for_notification(db) IN
            IF users = << >>
              THEN job' = Finished(NewRun(job), "none")
              ELSE job' = [ NewRun(job) EXCEPT !.pc = "generating", !.users = users,
                                               !.i = 1, !.escaped = "none" ]
  /\ UNCHANGED << db, flow, sent, genCount, lastUpsert >>

\* giga_client.chat returns, and send_message is awaited, or raises
JobGenerate(ok) ==
  /\ job.pc = "generating"
  /\ genCount' = genCount + 1
  /\ LET user_id == job.users[job.i][1]
         zodiac_sign == job.users[job.i][2]
     IN IF ok
          THEN job' = [ job EXCEPT !.pc = "sending", !.prediction = genCount + 1 ]
          ELSE JobExcept(JobRecorded(job, GenerationError, 0))
  /\ UNCHANGED << db, flow, sent, lastUpsert >>

\* save_horoscope ahead of the delivery's outcome
JobStore_Unconditional(d, j, sendOk, saveOk) ==
  IF saveOk
    THEN save_horoscope(d, j.users[j.i][1], j.users[j.i][2], j.prediction)
    ELSE d

\* the store after line 211: save_horoscope is reached only when send_message
\* returned, and may raise
JobStore(d, j, sendOk, saveOk) ==
  IF sendOk /\ saveOk
    THEN save_horoscope(d, j.users[j.i][1], j.users[j.i][2], j.prediction)
    ELSE d

\* send_message returns or raises; after a delivery save_horoscope runs
JobSend(sendOk, saveOk) ==
  /\ job.pc = "sending"
  /\ ~LoopHeldByFlow
  /\ LET user_id == job.users[job.i][1]
         zodiac_sign == job.users[job.i][2]
         result == IF ~sendOk THEN DeliveryError
                   ELSE IF ~saveOk THEN StorageError ELSE "ok"
         j == JobRecorded(job, result, job.prediction)
     IN /\ sent' = IF sendOk THEN sent \cup { DailyMsg(user_id, zodiac_sign, job.prediction) }
                   ELSE sent
        /\ db' = JobStore(db, job, sendOk, saveOk)
        /\ IF result = "ok" THEN EndIteration(j) ELSE JobExcept(j)
  /\ UNCHANGED << flow, genCount, lastUpsert >>

\* ------------------------------------------------------------------ spec
Next ==
  \/ \E u \in UserIds, data \in Tokens : Dispatch(u, data)
  \/ \E ok \in BOOLEAN : MenuAnswer(ok)
  \/ \E ok \in BOOLEAN : MenuEdit(ok)
  \/ \E ok \in BOOLEAN : FlowAnswer(ok)
  \/ \E ok \in BOOLEAN : FlowEdit(ok)
  \/ \E genOk, upOk, saveOk \in BOOLEAN : FlowGenerate(genOk, upOk, saveOk)
  \/ \E ok \in BOOLEAN : FlowReply(ok)
  \/ \E ok \in BOOLEAN : FlowApology(ok)
  \/ \E ok \in BOOLEAN : JobStart(ok)
  \/ \E ok \in BOOLEAN : JobGenerate(ok)
  \/ \E sendOk, saveOk \in BOOLEAN : JobSend(sendOk, saveOk)

Spec == Init /\ [][Next]_vars


\* ------------------------------------------------- the store on its own
\* DatabaseManager called directly, in any order and for any user: the
\* behaviours of its two writing methods without the bot's handlers around
\* them. The text of a call is numbered as a chat call's text is
CallSave(user_id, zodiac_sign) ==
  /\ genCount < MaxGen
  /\ genCount' = genCount + 1
  /\ db' = save_horoscope(db, user_id, zodiac_sign, genCount + 1)
  /\ UNCHANGED << flow, job, sent, lastUpsert >>

CallUpsert(user_id, zodiac_sign) ==
  /\ db' = update_user_zodiac(db, user_id, zodiac_sign)
  /\ lastUpsert' = [ lastUpsert EXCEPT ![user_id] = zodiac_sign ]
  /\ UNCHANGED << flow, job, sent, genCount >>

StoreNext ==
  \/ \E u \in UserIds, s \in SignsInPlay : CallSave(u, s)
  \/ \E u \in UserIds, s \in SignsInPlay : CallUpsert(u, s)

StoreSpec == Init /\ [][StoreNext]_vars

\* every call the daily job or a handler is waiting for returns or raises:
\* a chat call holds the event loop until it does, whoever made it, and a
\* send_message that is over lets the job go on once the loop is free
FairSpec ==
  /\ Spec
  /\ WF_vars(\E ok \in BOOLEAN : JobGenerate(ok))
  /\ WF_vars(\E genOk, upOk, saveOk \in BOOLEAN : FlowGenerate(genOk, upOk, saveOk))
  /\ WF_vars(\E sendOk, saveOk \in BOOLEAN : JobSend(sendOk, saveOk))

\* ---------------------------------------------------------------- claims
UsersRowsOf(user_id) == { r \in db.users : r.user_id = user_id }

HistoryWithText(d, text) == { r \in d.horoscopes : r.prediction = text }

Subscribers(d) ==
  { get_users_for_notification(d)[i] : i \in 1..Len(get_users_for_notification(d)) }

\* text was delivered by the daily job
IsDailyText(text) == \E m \in sent : m.kind = "daily" /\ m.prediction = text

\* C1: after any sequence of upserts, interleaved with the daily job, the
\* users table holds at most one row per user, and exactly one, carrying the
\* sign of the last completed upsert, for every user that has completed one.
C1_OneRowLastWriterWins ==
  \A u \in UserIds :
    /\ Cardinality(UsersRowsOf(u)) <= 1
    /\ lastUpsert[u] # NULL =>
         /\ Cardinality(UsersRowsOf(u)) = 1
         /\ \A r \in UsersRowsOf(u) : r.zodiac_sign = lastUpsert[u]

\* a user has completed two upserts with different signs (both handler runs
\* left their history row) and the last one was for the second sign
C1_Witness ==
  \E r1, r2 \in db.horoscopes :
    /\ r1.user_id = r2.user_id
    /\ r1.id < r2.id
    /\ r1.zodiac_sign # r2.zodiac_sign
    /\ ~IsDailyText(r1.prediction) /\ ~IsDailyText(r2.prediction)
    /\ lastUpsert[r2.user_id] = r2.zodiac_sign

\* C2: once an upsert of (u, s) has completed, get_users_for_notification
\* returns the pair (u, current sign of u).
C2_UpsertedUserIsSubscriber ==
  \A u \in UserIds :
    lastUpsert[u] # NULL => << u, lastUpsert[u] >> \in Subscribers(db)

\* C3: a failing generation, delivery or history write for one user never
\* leaves the job by an exception; a run that has returned has gone through
\* every user it fetched; and every user whose three steps succeeded has the
\* history row of that run.
C3_FailureIsolated ==
  /\ job.escaped # "subscriber"
  /\ (job.pc = "idle" /\ job.escaped = "none") => Len(job.results) = Len(job.users)
  /\ \A i \in 1..Len(job.results) :
       job.results[i] = "ok" =>
         \E r \in db.horoscopes :
           /\ r.user_id = job.users[i][1]
           /\ r.zodiac_sign = job.users[i][2]
           /\ r.prediction = job.texts[i]

\* a run over two users has returned: the first user's iteration failed, the
\* second user's went through
C3_Witness ==
  /\ job.pc = "idle" /\ job.escaped = "none"
  /\ Len(job.users) = 2 /\ Len(job.results) = 2
  /\ job.results[1] # "ok"
  /\ job.results[2] = "ok"

\* C4: when a sign selection ends with the prediction delivered, the user has
\* one users row, carrying the selected sign, exactly one history row carries
\* the generated text, for that user and sign, and that text was sent to the
\* user.
C4_SelectionStoredAndSent ==
  [][ (flow.pc = "reply" /\ flow'.pc = "idle" /\ flow'.outcome = "delivered") =>
        /\ Cardinality({ r \in db'.users : r.user_id = flow.user_id }) = 1
        /\ \A r \in db'.users : r.user_id = flow.user_id => r.zodiac_sign = flow.data
        /\ Cardinality(HistoryWithText(db', flow.prediction)) = 1
        /\ \A r \in HistoryWithText(db', flow.prediction) :
             r.user_id = flow.user_id /\ r.zodiac_sign = flow.data
        /\ HistoryWithText(db, flow.prediction) = HistoryWithText(db', flow.prediction)
        /\ HoroscopeMsg(flow.user_id, flow.data, flow.prediction) \in sent' ]_vars

\* a sign selection has ended with its prediction delivered
C4_Witness ==
  /\ flow.pc = "idle" /\ flow.outcome = "delivered"
  /\ \E m \in sent : m.kind = "horoscope"
  /\ \E u \in UserIds : lastUpsert[u] # NULL

\* C5: no run of generate_horoscope is left by an exception: it ends with the
\* prediction delivered or with the error logged and the apology sent.
C5_NoEscape ==
  (flow.pc = "idle" /\ flow.handler = "generate_horoscope") =>
    flow.outcome \in {"delivered", "apologised"}

\* C6: every history row whose delivery is not still awaited corresponds to
\* a message that was sent to that user.
C6_EveryRowWasDelivered ==
  \A r \in db.horoscopes :
    \/ flow.pc = "reply" /\ flow.prediction = r.prediction
    \/ \E m \in sent : m.chat_id = r.user_id /\ m.prediction = r.prediction

\* C6, amended: a history row is written either by the handler, for its user
\* and sign with the text just generated and before the delivery it then
\* awaits (the row stays whatever becomes of the delivery), or by the daily
\* job, for the user and sign at hand with the text it has just delivered.
C6_RowsFollowGenerationJobRowsDelivery ==
  [][ \A r \in db'.horoscopes \ db.horoscopes :
        IF flow.pc = "generating"
          THEN /\ r.user_id = flow.user_id /\ r.zodiac_sign = flow.data
               /\ r.prediction = genCount' /\ genCount' = genCount + 1
               /\ flow'.pc = "reply" /\ flow'.prediction = r.prediction
          ELSE /\ job.pc = "sending"
               /\ r.user_id = job.users[job.i][1]
               /\ r.zodiac_sign = job.users[job.i][2]
               /\ r.prediction = job.prediction
               /\ DailyMsg(r.user_id, r.zodiac_sign, r.prediction) \in sent' ]_vars

\* the history holds a row of the daily job, delivered, and a row of the
\* handler whose delivery failed
C6_Witness ==
  /\ \E r \in db.horoscopes : DailyMsg(r.user_id, r.zodiac_sign, r.prediction) \in sent
  /\ \E r \in db.horoscopes :
       /\ ~(flow.pc = "reply" /\ flow.prediction = r.prediction)
       /\ ~\E m \in sent : m.prediction = r.prediction

\* C7: two runs in succession over the same users, every iteration of both
\* going through, leave per user two history rows, one per run, each with
\* the user's sign, and two delivered messages, one per run.
C7_NoDeduplication ==
  (job.pc = "idle" /\ AllOk(job) /\ job.prior.ok /\ job.prior.users = job.users) =>
    \A i \in 1..Len(job.users) :
      LET u == job.users[i][1]
          s == job.users[i][2]
          both == { job.prior.texts[i], job.texts[i] }
      IN /\ Cardinality(both) = 2
         /\ Cardinality({ r \in db.horoscopes : r.prediction \in both }) = 2
         /\ \A t \in both :
              /\ Cardinality(HistoryWithText(db, t)) = 1
              /\ \A r \in HistoryWithText(db, t) : r.user_id = u /\ r.zodiac_sign = s
              /\ DailyMsg(u, s, t) \in sent
              /\ Cardinality({ m \in sent : m.prediction = t }) = 1

\* two runs in succession over the same user have both gone through
C7_Witness ==
  /\ job.pc = "idle" /\ AllOk(job) /\ job.prior.ok
  /\ job.prior.users = job.users
  /\ Len(job.users) >= 1

\* C8: no step removes or changes a history row.
C8_HistoryAppendOnly == [][ db.horoscopes \subseteq db'.horoscopes ]_vars

\* the history holds two rows of one user, and an upsert has completed
C8_Witness ==
  /\ \E r1, r2 \in db.horoscopes : r1 # r2 /\ r1.user_id = r2.user_id
  /\ \E u \in UserIds : lastUpsert[u] # NULL

\* C9: save_horoscope, called in any reachable state for any user, adds
\* exactly one history row and leaves the users table and the result of
\* get_users_for_notification as they were; the history holds one row per
\* call that went through.
C9_SaveTouchesOnlyHistory ==
  /\ Cardinality(db.horoscopes) = db.seq
  /\ LET before == get_users_for_notification(db)
     IN \A u \in UserIds, s \in SignsInPlay :
          LET d == save_horoscope(db, u, s, genCount + 1)
          IN /\ d.users = db.users
             /\ get_users_for_notification(d) = before
             /\ db.horoscopes \subseteq d.horoscopes
             /\ Cardinality(d.horoscopes) = Cardinality(db.horoscopes) + 1

\* two calls have gone through, with a subscriber in the users table
C9_Witness ==
  /\ Cardinality(db.horoscopes) = 2
  /\ Subscribers(db) # {}

\* C10: an upsert for a user that has a row changes zodiac_sign and
\* updated_at of that row only: every row keeps its created_at and its
\* notification_time.
C10_UpsertKeepsOtherColumns ==
  [][ \A r \in db.users :
        \E q \in db'.users :
          /\ q.user_id = r.user_id
          /\ q.created_at = r.created_at
          /\ q.notification_time = r.notification_time ]_vars

\* the callback token a step of the dispatcher or of a handler is about
TokenOf(f, g) == IF f.pc = "idle" THEN g.data ELSE f.data

\* C11: a callback whose token is not one of the 12 signs never reaches
\* generation or storage: no step taken for it calls giga_client.chat, changes
\* a users row, adds a history row or sends a prediction, and no handler is
\* ever at or past the chat call with such a token.
C11_OnlySignsReachGeneration ==
  [][ (flow' # flow /\ TokenOf(flow, flow') \notin AllSigns) =>
        /\ genCount' = genCount
        /\ db' = db
        /\ lastUpsert' = lastUpsert
        /\ sent' = sent
        /\ flow'.handler # "generate_horoscope"
        /\ flow'.pc \notin {"generating", "reply", "apology"} ]_vars

C13_SaveForUnknownUserAppends ==
  /\ Cardinality(db.horoscopes) = genCount
  /\ \A u \in UserIds :
       UsersRowsOf(u) = {} =>
         \A s \in SignsInPlay :
           LET d == save_horoscope(db, u, s, genCount + 1)
           IN \E r \in d.horoscopes :
                /\ d.horoscopes = db.horoscopes \cup {r}
                /\ r \notin db.horoscopes
                /\ r.user_id = u /\ r.zodiac_sign = s /\ r.prediction = genCount + 1

\* the history holds a row of a user that has no users row
C13_Witness ==
  \E r \in db.horoscopes : UsersRowsOf(r.user_id) = {}

\* the handler that is waiting on a chat-transport call gets its answer
HandlerStep ==
  \/ \E ok \in BOOLEAN : MenuAnswer(ok)
  \/ \E ok \in BOOLEAN : MenuEdit(ok)
  \/ \E ok \in BOOLEAN : FlowAnswer(ok)
  \/ \E ok \in BOOLEAN : FlowEdit(ok)
  \/ \E ok \in BOOLEAN : FlowReply(ok)
  \/ \E ok \in BOOLEAN : FlowApology(ok)

\* C14: while the daily job waits for one subscriber's generation, another
\* user's handler that waits on a chat-transport call can go on.
C14_SlowGenerationStallsNoOne ==
  ( /\ job.pc = "generating"
    /\ flow.pc \in {"answer", "edit", "reply", "apology"}
    /\ flow.user_id # job.users[job.i][1] ) =>
    ENABLED HandlerStep

\* C15: within one run of generate_horoscope the order is generate, persist,
\* deliver: a step of the handler writes the store only when it is the step
\* in which giga_client.chat returned a text, and it sends the prediction
\* only when the users row with the selected sign and the history row with
\* that text are already in the store.
C15_GenerateThenPersistThenDeliver ==
  [][ flow' # flow =>
        /\ (db' # db \/ lastUpsert' # lastUpsert) =>
             /\ flow.pc = "generating"
             /\ genCount' = genCount + 1
             /\ flow'.error # GenerationError
        /\ sent' # sent =>
             /\ flow.pc = "reply"
             /\ sent' = sent \cup { HoroscopeMsg(flow.user_id, flow.data, flow.prediction) }
             /\ \E r \in db.users :
                  r.user_id = flow.user_id /\ r.zodiac_sign = flow.data
             /\ \E r \in db.horoscopes :
                  /\ r.user_id = flow.user_id /\ r.zodiac_sign = flow.data
                  /\ r.prediction = flow.prediction ]_vars

\* a prediction has been sent by the handler, and its history row and the
\* user's row with that sign are in the store
C15_Witness ==
  \E m \in sent :
    /\ m.kind = "horoscope"
    /\ \E r \in db.horoscopes : r.user_id = m.chat_id /\ r.prediction = m.prediction
    /\ \E r \in db.users : r.user_id = m.chat_id /\ r.zodiac_sign = m.zodiac_sign

\* the daily job is between its fetch and its return
Running(j) == j.pc \in {"generating", "sending"}

\* C16: a run of the daily job whose calls all return or raise comes to its
\* end, and it goes through the users it fetched once each and in order:
\* the list stays as fetched, the iteration at work is the one after the
\* iterations that have ended, each chat call belongs to one iteration, an
\* iteration is followed by the next one, and the run ends after the last.
C16_RunEndsEveryUserOnce ==
  /\ [](Running(job) =>
          /\ job.i \in 1..Len(job.users)
          /\ Len(job.results) = job.i - 1)
  /\ [][ (Running(job) /\ job' # job) =>
           /\ job'.users = job.users
           /\ \/ /\ job.pc = "generating" /\ job'.pc = "sending"
                 /\ job'.i = job.i /\ job'.results = job.results
                 /\ genCount' = genCount + 1
              \/ /\ job'.pc = "generating"
                 /\ job'.i = job.i + 1
                 /\ Len(job'.results) = job.i
                 /\ genCount' = genCount + (IF job.pc = "generating" THEN 1 ELSE 0)
              \/ /\ job'.pc = "idle" /\ job'.escaped = "none"
                 /\ job.i = Len(job.users)
                 /\ Len(job'.results) = Len(job.users)
                 /\ genCount' = genCount + (IF job.pc = "generating" THEN 1 ELSE 0) ]_vars
  /\ Running(job) ~> (job.pc = "idle")

\* a run over two users has come to its end after a handler has run
C16_Witness ==
  /\ job.pc = "idle" /\ job.escaped = "none"
  /\ Len(job.users) = 2 /\ Len(job.results) = 2
  /\ flow.pc = "idle" /\ flow.outcome # "none"

\* C17: a step of the handler that runs for user u changes the users row of
\* no other user and adds no history row of another user, whatever the daily
\* job and earlier handlers have done in between.
C17_HandlerTouchesOwnUserOnly ==
  [][ flow' # flow =>
        /\ \A v \in UserIds \ {flow.user_id} :
             { r \in db'.users : r.user_id = v } = { r \in db.users : r.user_id = v }
        /\ \A r \in db'.horoscopes \ db.horoscopes : r.user_id = flow.user_id ]_vars

\* one user's selection has been stored, with its history row, while another
\* user's row is the one the table held at start-up
C17_Witness ==
  \E u, v \in UserIds :
    /\ u # v
    /\ lastUpsert[u] # NULL
    /\ \E r \in db.horoscopes : r.user_id = u /\ ~IsDailyText(r.prediction)
    /\ \E r \in db.users : r.user_id = v /\ r.created_at = BeforeStart

\* C18: when giga_client.chat raises in generate_horoscope, the handler leaves
\* the store as it was, sends no prediction, and ends with the apology
\* delivered to the user.
C18_FailedGenerationApologises ==
  [][ /\ (flow.pc = "generating" /\ flow'.error = GenerationError) =>
           /\ db' = db /\ lastUpsert' = lastUpsert /\ sent' = sent
           /\ flow'.pc = "apology"
      /\ (flow.pc = "apology" /\ flow.error = GenerationError /\ flow' # flow) =>
           /\ db' = db /\ lastUpsert' = lastUpsert /\ sent' = sent
           /\ flow'.pc = "idle" /\ flow'.outcome = "apologised" ]_vars

\* C19: in every state the handlers and the daily job lead to, every history
\* row is of a user that has a users row.
C19_HistoryUsersHaveRow ==
  \A r \in db.horoscopes : UsersRowsOf(r.user_id) # {}

\* the history holds a row of the daily job and a row of a handler whose
\* user had no users row at start-up
C19_Witness ==
  /\ \E r \in db.horoscopes : IsDailyText(r.prediction)
  /\ \E r \in db.horoscopes :
       /\ ~IsDailyText(r.prediction)
       /\ \A q \in UsersRowsOf(r.user_id) : q.created_at = CURRENT_TIMESTAMP
====
